---- MODULE Spec2Model ----
(***************************************************************************)
(* Model of the Reflector metadata registry (src/src/index.ts), a          *)
(* roblox-ts class: the TypeScript compiles to Luau, where undefined is    *)
(* nil, a Map is a table, and Map.set(k, undefined) is the assignment      *)
(* t[k] = nil, which removes the key.                                      *)
(*                                                                         *)
(* A value is a record [type, v]: nil, a string or a table (an object or a *)
(* class, named by its identity).  The heap gives, for each table, its     *)
(* hidden field __metadataStore: absent, or a Map from scope id to a       *)
(* metadata Map.  A metadata Map is the sequence of its [key, value]       *)
(* entries, in insertion order.  Tables are plain and independent: none    *)
(* reaches another's fields through a metatable.                           *)
(***************************************************************************)
EXTENDS Integers, Sequences, FiniteSets, TLC

\* ------------------------------------------------------------------ bounds
\* Number of defines that reach the store in one run; only reads follow.
MaxDefines == 2

\* ------------------------------------------------------------------ values
Nil == [type |-> "nil", v |-> "nil"]
Str(s) == [type |-> "string", v |-> s]
Table(id) == [type |-> "table", v |-> id]

TableIds == {"A", "B"}
Tables == {Table(id) : id \in TableIds}
Keys == {Str("version"), Str("author")}
Values == {Str("1.0"), Str("2.0"), Nil}
Members == {Str("m1"), Str("m2")}
\* What a caller passes as a target, and as an optional member name.
Targets == Tables \cup {Nil}
OptMembers == Members \cup {Nil}

typeIs(x, t) == x.type = t
tostring(x) == x.v
\* Luau truthiness of an object-typed expression: only nil is falsy here.
Truthy(x) == x # Nil

\* ------------------------------------------------------------------ Map
EmptyMap == << >>
EmptyStore == [k \in {} |-> EmptyMap]

MapIndex(map, key) == {i \in 1..Len(map) : map[i].key = key}
MapGet(map, key) ==
  IF MapIndex(map, key) = {} THEN Nil
  ELSE map[CHOOSE i \in MapIndex(map, key) : TRUE].value

RECURSIVE MapDelete(_, _)
MapDelete(map, key) ==
  IF map = << >> THEN << >>
  ELSE IF Head(map).key = key THEN MapDelete(Tail(map), key)
  ELSE <<Head(map)>> \o MapDelete(Tail(map), key)

\* Faulty variant: every set of a value adds an entry, also for a key that
\* is present.
MapSet_AlwaysAdds(map, key, value) ==
  IF value = Nil THEN MapDelete(map, key)
  ELSE Append(map, [key |-> key, value |-> value])

\* map.set(key, value): the table assignment map[key] = value.  Assigning
\* nil removes the key; a present key keeps its place; a new key is added.
MapSet(map, key, value) ==
  IF value = Nil THEN MapDelete(map, key)
  ELSE IF MapIndex(map, key) # {}
       THEN [i \in 1..Len(map) |->
               IF map[i].key = key THEN [key |-> key, value |-> value] ELSE map[i]]
       ELSE Append(map, [key |-> key, value |-> value])

StoreHas(store, keyId) == keyId \in DOMAIN store
StoreSet(store, keyId, map) ==
  [k \in (DOMAIN store) \cup {keyId} |-> IF k = keyId THEN map ELSE store[k]]

\* ------------------------------------------------------------------ helpers
\* Faulty variant: the scope id forgets the member name.
getKeyId_IgnoresMember(target, propertyKey) == tostring(target)

getKeyId(target, propertyKey) ==
  IF propertyKey = Nil THEN tostring(target)
  ELSE tostring(target) \o "." \o tostring(propertyKey)

\* new Array(map.size()) is table.create(n): capacity, no elements; forEach
\* then pushes each key.  The order forEach visits a Luau table in is not
\* specified; it is taken to be insertion order here, which no reachable
\* map can tell apart (none holds two keys).
getMapKeys(map) == [i \in 1..Len(map) |-> map[i].key]

NoSlot == [hasStore |-> FALSE, store |-> EmptyStore]

\* The expression target["__metadataStore"]: indexing nil raises; a string
\* has no such field; a table has it once it was assigned.
IndexStore(h, target) ==
  IF target.type = "table"
  THEN [raised |-> FALSE, defined |-> h[target.v].hasStore, store |-> h[target.v].store]
  ELSE [raised |-> target = Nil, defined |-> FALSE, store |-> EmptyStore]

Undefined(h) == [heap |-> h, raised |-> FALSE, defined |-> FALSE, store |-> EmptyStore]

\* The assignment target.__metadataStore = new Map() raises on a string.
createOrGetMetadataStore(h, target) ==
  LET create == Truthy(target) /\ ~IndexStore(h, target).defined
      h1 == IF create /\ target.type = "table"
            THEN [h EXCEPT ![target.v] = [hasStore |-> TRUE, store |-> EmptyStore]]
            ELSE h
      r == IndexStore(h1, target)
      bad == (create /\ target.type # "table") \/ r.raised
  IN  [heap |-> h1, raised |-> bad, defined |-> ~bad /\ r.defined, store |-> r.store]

\* Faulty variant: the readers' lookup creates the slot, as the writers' does.
getMetadataStore_Creates(h, target) ==
  IF target = Nil THEN Undefined(h)
  ELSE createOrGetMetadataStore(h, target)

\* Faulty variant: no early return for an undefined target (line 225 dropped).
getMetadataStore_NoNilGuard(h, target) ==
  IF Truthy(target) /\ ~IndexStore(h, target).defined THEN Undefined(h)
  ELSE LET r == IndexStore(h, target)
       IN  [heap |-> h, raised |-> r.raised, defined |-> r.defined, store |-> r.store]

getMetadataStore(h, target) ==
  IF target = Nil THEN Undefined(h)
  ELSE IF Truthy(target) /\ ~IndexStore(h, target).defined THEN Undefined(h)
  ELSE LET r == IndexStore(h, target)
       IN  [heap |-> h, raised |-> r.raised, defined |-> r.defined, store |-> r.store]

\* ------------------------------------------------------------------ readers
\* Each returns the heap it leaves, whether it raised, and its result.
getMetadataKeys(h, target, propertyKey) ==
  LET ms == getMetadataStore(h, target)
      keyId == getKeyId(target, propertyKey)
  IN  IF ms.raised THEN [heap |-> ms.heap, raised |-> TRUE, absent |-> TRUE, keys |-> << >>]
      ELSE IF ~ms.defined THEN [heap |-> ms.heap, raised |-> FALSE, absent |-> TRUE, keys |-> << >>]
      ELSE IF ~StoreHas(ms.store, keyId)
           THEN [heap |-> ms.heap, raised |-> FALSE, absent |-> TRUE, keys |-> << >>]
      ELSE [heap |-> ms.heap, raised |-> FALSE, absent |-> FALSE,
            keys |-> getMapKeys(ms.store[keyId])]

\* Faulty variant: the test stops at the scope and never looks the key up.
hasMetadata_ScopeOnly(h, target, metadataKey, propertyKey) ==
  LET ms == getMetadataStore(h, target)
      keyId == getKeyId(target, propertyKey)
  IN  [heap |-> ms.heap, raised |-> ms.raised,
       ret |-> ~ms.raised /\ ms.defined /\ StoreHas(ms.store, keyId)]

hasMetadata(h, target, metadataKey, propertyKey) ==
  LET ms == getMetadataStore(h, target)
      keyId == getKeyId(target, propertyKey)
  IN  IF ms.raised THEN [heap |-> ms.heap, raised |-> TRUE, ret |-> FALSE]
      ELSE IF ~ms.defined THEN [heap |-> ms.heap, raised |-> FALSE, ret |-> FALSE]
      ELSE IF ~StoreHas(ms.store, keyId) THEN [heap |-> ms.heap, raised |-> FALSE, ret |-> FALSE]
      ELSE IF MapGet(ms.store[keyId], metadataKey) = Nil
           THEN [heap |-> ms.heap, raised |-> FALSE, ret |-> FALSE]
      ELSE [heap |-> ms.heap, raised |-> FALSE, ret |-> TRUE]

\* Faulty variant: the value is looked up in the entity scope, whatever member
\* is asked for.
getMetadata_IgnoresMember(h, target, metadataKey, propertyKey) ==
  LET ms == getMetadataStore(h, target)
      keyId == getKeyId(target, Nil)
  IN  IF ms.raised THEN [heap |-> ms.heap, raised |-> TRUE, ret |-> Nil]
      ELSE IF ~ms.defined THEN [heap |-> ms.heap, raised |-> FALSE, ret |-> Nil]
      ELSE IF StoreHas(ms.store, keyId)
           THEN [heap |-> ms.heap, raised |-> FALSE, ret |-> MapGet(ms.store[keyId], metadataKey)]
      ELSE [heap |-> ms.heap, raised |-> FALSE, ret |-> Nil]

getMetadata(h, target, metadataKey, propertyKey) ==
  LET ms == getMetadataStore(h, target)
      keyId == getKeyId(target, propertyKey)
  IN  IF ms.raised THEN [heap |-> ms.heap, raised |-> TRUE, ret |-> Nil]
      ELSE IF ~ms.defined THEN [heap |-> ms.heap, raised |-> FALSE, ret |-> Nil]
      ELSE IF StoreHas(ms.store, keyId)
           THEN [heap |-> ms.heap, raised |-> FALSE, ret |-> MapGet(ms.store[keyId], metadataKey)]
      ELSE [heap |-> ms.heap, raised |-> FALSE, ret |-> Nil]

\* ------------------------------------------------------------------ define
NoClosure == [live |-> FALSE, metadataKey |-> Nil, metadataValue |-> Nil]
Closure(metadataKey, metadataValue) ==
  [live |-> TRUE, metadataKey |-> metadataKey, metadataValue |-> metadataValue]

\* Faulty variant: the two statements of lines 108 and 110 are swapped, so
\* a new key is stored and then the scope is reset (and the store of a
\* scope that does not exist yet indexes nil).
defineImperative_SetBeforeReset(h, target, metadataKey, metadataValue, propertyKey) ==
  LET cs == createOrGetMetadataStore(h, target)
      keyId == getKeyId(target, propertyKey)
      hm == hasMetadata(cs.heap, target, metadataKey, propertyKey)
  IN  IF cs.raised THEN [heap |-> cs.heap, raised |-> TRUE]
      ELSE IF hm.raised THEN [heap |-> hm.heap, raised |-> TRUE]
      ELSE LET s0 == hm.heap[target.v].store
           IN  IF ~StoreHas(s0, keyId) THEN [heap |-> hm.heap, raised |-> TRUE]
               ELSE LET s1 == [s0 EXCEPT ![keyId] = MapSet(@, metadataKey, metadataValue)]
                        s2 == IF ~hm.ret THEN StoreSet(s1, keyId, EmptyMap) ELSE s1
                    IN  [heap |-> [hm.heap EXCEPT ![target.v].store = s2],
                         raised |-> FALSE]

\* Faulty variant: a fresh map is made only for a scope that has none; a key
\* new to an existing scope joins the keys already there.
defineImperative_KeepsOtherKeys(h, target, metadataKey, metadataValue, propertyKey) ==
  LET cs == createOrGetMetadataStore(h, target)
      keyId == getKeyId(target, propertyKey)
  IN  IF cs.raised THEN [heap |-> cs.heap, raised |-> TRUE]
      ELSE LET s0 == cs.heap[target.v].store
               s1 == IF ~StoreHas(s0, keyId) THEN StoreSet(s0, keyId, EmptyMap) ELSE s0
               s2 == [s1 EXCEPT ![keyId] = MapSet(@, metadataKey, metadataValue)]
           IN  [heap |-> [cs.heap EXCEPT ![target.v].store = s2], raised |-> FALSE]

\* Faulty variant: a scope whose map is left without a key is taken out of
\* the store.
defineImperative_DropsEmptyScope(h, target, metadataKey, metadataValue, propertyKey) ==
  LET cs == createOrGetMetadataStore(h, target)
      keyId == getKeyId(target, propertyKey)
      hm == hasMetadata(cs.heap, target, metadataKey, propertyKey)
  IN  IF cs.raised THEN [heap |-> cs.heap, raised |-> TRUE]
      ELSE IF hm.raised THEN [heap |-> hm.heap, raised |-> TRUE]
      ELSE LET s0 == hm.heap[target.v].store
               s1 == IF ~hm.ret THEN StoreSet(s0, keyId, EmptyMap) ELSE s0
               s2 == [s1 EXCEPT ![keyId] = MapSet(@, metadataKey, metadataValue)]
               s3 == [k \in {x \in DOMAIN s2 : s2[x] # EmptyMap} |-> s2[k]]
           IN  [heap |-> [hm.heap EXCEPT ![target.v].store = s3], raised |-> FALSE]

\* Lines 101-110.  metadataStore is a reference to the target's store, so
\* its mutations are mutations of the heap.
defineImperative(h, target, metadataKey, metadataValue, propertyKey) ==
  LET cs == createOrGetMetadataStore(h, target)
      keyId == getKeyId(target, propertyKey)
      hm == hasMetadata(cs.heap, target, metadataKey, propertyKey)
  IN  IF cs.raised THEN [heap |-> cs.heap, raised |-> TRUE]
      ELSE IF hm.raised THEN [heap |-> hm.heap, raised |-> TRUE]
      ELSE LET s0 == hm.heap[target.v].store
               s1 == IF ~hm.ret THEN StoreSet(s0, keyId, EmptyMap) ELSE s0
               s2 == [s1 EXCEPT ![keyId] = MapSet(@, metadataKey, metadataValue)]
           IN  [heap |-> [hm.heap EXCEPT ![target.v].store = s2], raised |-> FALSE]

\* Faulty variant: the closure writes to one fixed table, not to the target it is
\* invoked with.
annotator_FixedTarget(h, closure, target, propertyKey) ==
  defineImperative(h, Table("A"), closure.metadataKey, closure.metadataValue, propertyKey)

\* Faulty variant: the closure starts a fresh map only for a scope that has
\* none, and otherwise adds its key to the keys already there.
annotator_KeepsOtherKeys(h, closure, target, propertyKey) ==
  LET metadataStore == createOrGetMetadataStore(h, target)
      keyId == getKeyId(target, propertyKey)
  IN  IF metadataStore.raised THEN [heap |-> metadataStore.heap, raised |-> TRUE]
      ELSE LET s0 == metadataStore.heap[target.v].store
               s1 == IF ~StoreHas(s0, keyId) THEN StoreSet(s0, keyId, EmptyMap) ELSE s0
               s2 == [s1 EXCEPT ![keyId] =
                        MapSet(@, closure.metadataKey, closure.metadataValue)]
           IN  [heap |-> [metadataStore.heap EXCEPT ![target.v].store = s2],
                raised |-> FALSE]

\* Lines 89-97: the function the declarative branch returns.
annotator(h, closure, target, propertyKey) ==
  LET metadataStore == createOrGetMetadataStore(h, target)
      keyId == getKeyId(target, propertyKey)
      hm == hasMetadata(metadataStore.heap, target, closure.metadataKey, propertyKey)
  IN  IF metadataStore.raised THEN [heap |-> metadataStore.heap, raised |-> TRUE]
      ELSE IF hm.raised THEN [heap |-> hm.heap, raised |-> TRUE]
      ELSE LET s0 == hm.heap[target.v].store
               s1 == IF ~hm.ret THEN StoreSet(s0, keyId, EmptyMap) ELSE s0
               s2 == [s1 EXCEPT ![keyId] =
                        MapSet(@, closure.metadataKey, closure.metadataValue)]
           IN  [heap |-> [hm.heap EXCEPT ![target.v].store = s2], raised |-> FALSE]

\* Faulty variant: the overload test forgets the member name.
IsDeclarative_IgnoresMember(targetOrMetadataKey, metadataValue, propertyKey) ==
  metadataValue = Nil /\ typeIs(targetOrMetadataKey, "string")

\* Lines 79-83: the overload test.
IsDeclarative(targetOrMetadataKey, metadataValue, propertyKey) ==
  metadataValue = Nil /\ propertyKey = Nil /\ typeIs(targetOrMetadataKey, "string")

defineMetadata(h, targetOrMetadataKey, metadataKeyOrValue, metadataValue, propertyKey) ==
  IF IsDeclarative(targetOrMetadataKey, metadataValue, propertyKey)
  THEN [heap |-> h, raised |-> FALSE, branch |-> "declarative",
        ret |-> Closure(targetOrMetadataKey, metadataKeyOrValue)]
  ELSE LET r == defineImperative(h, targetOrMetadataKey, metadataKeyOrValue,
                                 metadataValue, propertyKey)
       IN  [heap |-> r.heap, raised |-> r.raised, branch |-> "imperative",
            ret |-> NoClosure]

\* ------------------------------------------------------------------ state
VARIABLES
  heap,          \* table identity -> its __metadataStore field
  held,          \* the annotator the caller holds, or NoClosure
  raised,        \* the last call raised an error: the calling thread is dead
  entityLog,     \* history: per table, the entity-scope defines performed
  definedOn,     \* history: the tables a define was performed on
  definedScopes, \* history: the scopes a define was performed on
  undefinedLast, \* history: the scopes whose latest define passed undefined
  numDefines     \* history: how many defines reached the store

vars ==
  <<heap, held, raised, entityLog, definedOn, definedScopes, undefinedLast, numDefines>>
history == <<entityLog, definedOn, definedScopes, undefinedLast, numDefines>>

\* The entity-scope defines performed on a table, summarised: one entry per
\* distinct key, in the order the keys were first defined, with the value
\* of the most recent define of that key.
LogDefine(log, metadataKey, metadataValue) ==
  IF \E i \in 1..Len(log) : log[i].key = metadataKey
  THEN [i \in 1..Len(log) |->
          IF log[i].key = metadataKey
          THEN [key |-> metadataKey, value |-> metadataValue] ELSE log[i]]
  ELSE Append(log, [key |-> metadataKey, value |-> metadataValue])

LogAfter(log, target, metadataKey, metadataValue, propertyKey) ==
  IF propertyKey = Nil
  THEN [log EXCEPT ![target.v] = LogDefine(@, metadataKey, metadataValue)]
  ELSE log

\* The history after a define of metadataKey -> metadataValue reached the
\* store of target, in scope (target, propertyKey).
Recorded(target, metadataKey, metadataValue, propertyKey) ==
  /\ entityLog' = LogAfter(entityLog, target, metadataKey, metadataValue, propertyKey)
  /\ definedOn' = definedOn \cup {target.v}
  /\ definedScopes' = definedScopes \cup {<<target, propertyKey>>}
  /\ undefinedLast' = IF metadataValue = Nil
                      THEN undefinedLast \cup {<<target.v, propertyKey>>}
                      ELSE undefinedLast \ {<<target.v, propertyKey>>}
  /\ numDefines' = numDefines + 1

Init ==
  /\ heap = [id \in TableIds |-> NoSlot]
  /\ held = NoClosure
  /\ raised = FALSE
  /\ entityLog = [id \in TableIds |-> << >>]
  /\ definedOn = {}
  /\ definedScopes = {}
  /\ undefinedLast = {}
  /\ numDefines = 0

\* The overloads' parameter types: the second argument is the value of a
\* declarative call and the key of an imperative one.
WellTyped(a1, a2, a3, a4) ==
  IF IsDeclarative(a1, a3, a4) THEN a2 \in Values ELSE a2 \in Keys

\* Reflector.defineMetadata(a1, a2, a3, a4), either overload.  An error is
\* not caught: it ends the calling thread, and no call follows it.
DefineMetadata(a1, a2, a3, a4) ==
  LET r == defineMetadata(heap, a1, a2, a3, a4)
      stored == r.branch = "imperative" /\ ~r.raised
  IN  /\ ~raised
      /\ numDefines < MaxDefines
      /\ WellTyped(a1, a2, a3, a4)
      /\ heap' = r.heap
      /\ held' = IF r.branch = "declarative" THEN r.ret ELSE held
      /\ raised' = r.raised
      /\ IF stored THEN Recorded(a1, a2, a3, a4) ELSE UNCHANGED history

\* The host invokes the held annotator on (target, propertyKey).
InvokeAnnotator(target, propertyKey) ==
  LET r == annotator(heap, held, target, propertyKey)
  IN  /\ ~raised
      /\ numDefines < MaxDefines
      /\ held.live
      /\ heap' = r.heap
      /\ held' = held
      /\ raised' = r.raised
      /\ IF r.raised THEN UNCHANGED history
         ELSE Recorded(target, held.metadataKey, held.metadataValue, propertyKey)

\* A read, with any arguments: what it leaves of the heap, and whether it
\* raised.  The value it returns goes to the caller and is no state.
Outcome(r) == [heap |-> r.heap, raised |-> r.raised]

Read(outcomes) ==
  /\ ~raised
  /\ \E out \in outcomes : heap' = out.heap /\ raised' = out.raised
  /\ UNCHANGED <<held, history>>

GetMetadataKeys ==
  Read({Outcome(getMetadataKeys(heap, target, propertyKey)) :
          target \in Targets, propertyKey \in OptMembers})

HasMetadata ==
  Read({Outcome(hasMetadata(heap, target, metadataKey, propertyKey)) :
          target \in Targets, metadataKey \in Keys, propertyKey \in OptMembers})

GetMetadata ==
  Read({Outcome(getMetadata(heap, target, metadataKey, propertyKey)) :
          target \in Targets, metadataKey \in Keys, propertyKey \in OptMembers})

Next ==
  \/ \E a1 \in Targets \cup Keys, a2 \in Keys \cup Values, a3 \in Values, a4 \in OptMembers :
       DefineMetadata(a1, a2, a3, a4)
  \/ \E target \in Targets, propertyKey \in OptMembers :
       InvokeAnnotator(target, propertyKey)
  \/ GetMetadataKeys
  \/ HasMetadata
  \/ GetMetadata

Spec == Init /\ [][Next]_vars

\* ------------------------------------------------------------------ claims
\* What the three readers report about scope (target, propertyKey).
Observed(h, target, propertyKey) ==
  LET r == getMetadataKeys(h, target, propertyKey)
  IN  [absent |-> r.absent,
       keys |-> r.keys,
       get |-> [k \in Keys |-> getMetadata(h, target, k, propertyKey).ret],
       has |-> [k \in Keys |-> hasMetadata(h, target, k, propertyKey).ret]]

\* A further defineMetadata call, or annotator invocation, can be made.
CanDefine == ~raised /\ numDefines < MaxDefines

\* C1: getMetadata(T, K) without a member returns the value of the most
\* recent define of K in the entity scope of T, whatever other keys were
\* defined there in between, and the scope holds one entry for K.  Stated
\* for the scopes whose keys all hold a value other than undefined.
C1_LatestValueReturned ==
  \A t \in Tables : \A i \in 1..Len(entityLog[t.v]) :
    (\A n \in 1..Len(entityLog[t.v]) : entityLog[t.v][n].value # Nil) =>
    /\ getMetadata(heap, t, entityLog[t.v][i].key, Nil).ret = entityLog[t.v][i].value
    /\ Cardinality({j \in 1..Len(getMetadataKeys(heap, t, Nil).keys) :
                      getMetadataKeys(heap, t, Nil).keys[j] = entityLog[t.v][i].key}) <= 1

\* C2: getMetadataKeys(T) lists every distinct key defined in the entity
\* scope of T, once each, in the order the keys were first defined.  Stated
\* for the scopes whose keys all hold a value other than undefined.
C2_KeysInFirstDefinedOrder ==
  \A t \in Tables :
    (/\ entityLog[t.v] # << >>
     /\ \A i \in 1..Len(entityLog[t.v]) : entityLog[t.v][i].value # Nil)
    => /\ ~getMetadataKeys(heap, t, Nil).absent
       /\ getMetadataKeys(heap, t, Nil).keys =
            [i \in 1..Len(entityLog[t.v]) |-> entityLog[t.v][i].key]

\* C3: hasMetadata(T, K) is false as long as no define of K was performed on
\* the entity scope of T, and true right after a define of K with a value
\* other than undefined.
C3_FalseBeforeDefine ==
  \A t \in Tables, k \in Keys :
    (\A i \in 1..Len(entityLog[t.v]) : entityLog[t.v][i].key # k)
    => /\ ~hasMetadata(heap, t, k, Nil).ret
       /\ ~hasMetadata(heap, t, k, Nil).raised
C3_TrueAfterDefine ==
  CanDefine =>
  \A t \in Tables, k \in Keys, v \in Values \ {Nil} :
    /\ hasMetadata(defineMetadata(heap, t, k, v, Nil).heap, t, k, Nil).ret
    /\ hasMetadata(annotator(heap, Closure(k, v), t, Nil).heap, t, k, Nil).ret
C3_HasMetadataBeforeAndAfter == C3_FalseBeforeDefine /\ C3_TrueAfterDefine
\* Key k was defined on the entity scope of t and is reported; k2 was
\* defined only on a member of t and is not reported for the entity scope.
C3_Witness ==
  \E t \in Tables, k \in Keys, k2 \in Keys :
    /\ k # k2
    /\ hasMetadata(heap, t, k, Nil).ret
    /\ \E i \in 1..Len(entityLog[t.v]) : entityLog[t.v][i].key = k
    /\ \A i \in 1..Len(entityLog[t.v]) : entityLog[t.v][i].key # k2
    /\ ~hasMetadata(heap, t, k2, Nil).ret
    /\ \E m \in Members : hasMetadata(heap, t, k2, m).ret

\* The heaps a define of metadataKey -> metadataValue on scope
\* (target, propertyKey) can leave: by the imperative call, by an annotator.
AfterDefine(h, target, metadataKey, metadataValue, propertyKey) ==
  {defineMetadata(h, target, metadataKey, metadataValue, propertyKey).heap,
   annotator(h, Closure(metadataKey, metadataValue), target, propertyKey).heap}

\* C4: a define on scope (T, m1) changes nothing the readers report for the
\* entity scope of T or for another member m2; the first define on a
\* target, made on member m1, leaves getMetadataKeys(T) absent and
\* getMetadataKeys(T, m1) = [K].
C4_MemberScopesIsolated ==
  CanDefine =>
  \A t \in Tables :
    LET before == [m2 \in OptMembers |-> Observed(heap, t, m2)]
    IN  \A k \in Keys, v \in Values, m1 \in Members :
          \A h2 \in AfterDefine(heap, t, k, v, m1) :
            /\ \A m2 \in OptMembers \ {m1} : Observed(h2, t, m2) = before[m2]
            /\ (~heap[t.v].hasStore /\ v # Nil)
               => /\ getMetadataKeys(h2, t, Nil).absent
                  /\ ~getMetadataKeys(h2, t, m1).absent
                  /\ getMetadataKeys(h2, t, m1).keys = <<k>>
\* Only a member of t was defined upon: its scope lists the key, the entity
\* scope is absent.
C4_Witness ==
  \E t \in Tables, m \in Members, k \in Keys :
    /\ numDefines = 1
    /\ getMetadataKeys(heap, t, Nil).absent
    /\ ~getMetadataKeys(heap, t, m).absent
    /\ getMetadataKeys(heap, t, m).keys = <<k>>

\* C5: a define with an absent target, by the imperative call or by an
\* annotator, raises nothing and leaves every target's metadata unchanged.
C5_AbsentTargetSilentNoOp ==
  [][\A k \in Keys, v \in Values, m \in OptMembers :
       (DefineMetadata(Nil, k, v, m) \/ InvokeAnnotator(Nil, m))
       => (~raised' /\ heap' = heap)]_vars

\* C6: on an absent target, and on a table no define was performed on,
\* getMetadataKeys and getMetadata return absent and hasMetadata returns
\* false, for every key and member, and none of them raises.
C6_NeverDefinedReadsAbsent ==
  \A t \in Targets :
    (t = Nil \/ t.v \notin definedOn) =>
      \A k \in Keys, m \in OptMembers :
        /\ getMetadataKeys(heap, t, m).absent /\ ~getMetadataKeys(heap, t, m).raised
        /\ getMetadata(heap, t, k, m).ret = Nil /\ ~getMetadata(heap, t, k, m).raised
        /\ ~hasMetadata(heap, t, k, m).ret /\ ~hasMetadata(heap, t, k, m).raised
\* One table was defined upon and reports a key, another was not.
C6_Witness ==
  \E t \in Tables, u \in Tables :
    /\ t.v \in definedOn /\ u.v \notin definedOn
    /\ \E k \in Keys : hasMetadata(heap, t, k, Nil).ret

C8_OverloadDispatch ==
  CanDefine =>
  \A a1 \in Targets \cup Keys, a2 \in Keys \cup Values, a3 \in Values, a4 \in OptMembers :
    LET declarative == a3 = Nil /\ a4 = Nil /\ a1.type = "string"
    IN  WellTyped(a1, a2, a3, a4) =>
          LET r == defineMetadata(heap, a1, a2, a3, a4)
          IN  /\ r.ret.live <=> declarative
              /\ r.branch = "declarative" <=> declarative
              /\ declarative => /\ r.ret = Closure(a1, a2)
                                /\ r.heap = heap
                                /\ ~r.raised
              /\ ~declarative => /\ r.ret = NoClosure
                                 /\ r.heap = defineImperative(heap, a1, a2, a3, a4).heap
                                 /\ a1 \in Tables =>
                                      /\ ~r.raised
                                      /\ getMetadata(r.heap, a1, a2, a4).ret = a3
\* An annotator was returned and an imperative define reached the store.
C8_Witness == held.live /\ numDefines > 0 /\ ~raised

\* C9: the three readers leave the heap as they found it: no slot and no
\* scope map is created by a read.
C9_ReadersArePure ==
  \A t \in Targets, k \in Keys, m \in OptMembers :
    /\ getMetadataKeys(heap, t, m).heap = heap
    /\ hasMetadata(heap, t, k, m).heap = heap
    /\ getMetadata(heap, t, k, m).heap = heap
\* A table without a slot next to one with a slot that lacks a scope.
C9_Witness ==
  \E t \in Tables, u \in Tables, m \in Members :
    /\ ~heap[t.v].hasStore
    /\ heap[u.v].hasStore
    /\ ~StoreHas(heap[u.v].store, getKeyId(u, m))

\* C10 as claimed: a key list that is not absent is never empty.
C10_KeysNeverEmpty ==
  \A t \in Tables, m \in OptMembers :
    ~getMetadataKeys(heap, t, m).absent => Len(getMetadataKeys(heap, t, m).keys) > 0
\* C10 as amended: a key list that is not absent is non-empty unless the
\* latest define on its scope passed the value undefined.
C10_NonEmptyUnlessUndefinedLast ==
  \A t \in Tables, m \in OptMembers :
    (~getMetadataKeys(heap, t, m).absent /\ <<t.v, m>> \notin undefinedLast)
    => Len(getMetadataKeys(heap, t, m).keys) > 0
\* A scope whose map exists and holds no key, next to one that holds a key.
C10_Witness ==
  \E t \in Tables, m \in OptMembers, u \in Tables, m2 \in OptMembers :
    /\ ~getMetadataKeys(heap, t, m).absent
    /\ getMetadataKeys(heap, t, m).keys = << >>
    /\ ~getMetadataKeys(heap, u, m2).absent
    /\ Len(getMetadataKeys(heap, u, m2).keys) = 1

\* C11: once a define was performed on scope (T, m), the slot of T and the
\* metadata map of scope (T, m) exist in every later state:
\* getMetadataKeys(T, m) is never absent again.
C11_ScopesNeverRemoved ==
  \A sc \in definedScopes :
    /\ heap[sc[1].v].hasStore
    /\ StoreHas(heap[sc[1].v].store, getKeyId(sc[1], sc[2]))
    /\ ~getMetadataKeys(heap, sc[1], sc[2]).absent
\* A scope was defined upon twice, last with the value undefined, which
\* took its only key away: the scope is still there, with no key.
C11_Witness ==
  \E sc \in definedScopes :
    /\ definedScopes = {sc}
    /\ numDefines = 2
    /\ <<sc[1].v, sc[2]>> \in undefinedLast
    /\ ~getMetadataKeys(heap, sc[1], sc[2]).absent
    /\ getMetadataKeys(heap, sc[1], sc[2]).keys = << >>

\* C12: wherever a further define can be made, for every key K, value V,
\* table T and member m (absent or given), the annotator returned by
\* defineMetadata(K, V), invoked as annotator(T, m), leaves the same store
\* state as the imperative call defineMetadata(T, K, V, m), and raises
\* exactly when it does.
C12_DeclarativeEqualsImperative ==
  CanDefine =>
  \A t \in Tables, k \in Keys, v \in Values, m \in OptMembers :
    LET d == defineMetadata(heap, k, v, Nil, Nil)
        a == annotator(d.heap, d.ret, t, m)
        i == defineMetadata(heap, t, k, v, m)
    IN  /\ d.ret.live
        /\ i.branch = "imperative"
        /\ a.heap = i.heap
        /\ a.raised = i.raised
\* The held annotator's key and value are in an entity scope where another
\* key was defined first: a define that replaced a map, not only filled one.
C12_Witness ==
  \E t \in Tables :
    /\ held.live /\ held.metadataValue # Nil
    /\ Len(entityLog[t.v]) = 2
    /\ entityLog[t.v][2] = [key |-> held.metadataKey, value |-> held.metadataValue]
    /\ entityLog[t.v][1].value # Nil
    /\ getMetadata(heap, t, held.metadataKey, Nil).ret = held.metadataValue

\* C13: wherever a further define can be made, invoking one annotator twice
\* in a row on the same table and member leaves the same store state as
\* invoking it once: the key is listed once at most, the value read back is
\* the captured one, and neither call raises.
C13_AnnotatorIdempotent ==
  CanDefine =>
  \A t \in Tables, k \in Keys, v \in Values, m \in OptMembers :
    LET once == annotator(heap, Closure(k, v), t, m)
        twice == annotator(once.heap, Closure(k, v), t, m)
    IN  /\ ~once.raised /\ ~twice.raised
        /\ twice.heap = once.heap
        /\ Cardinality({j \in 1..Len(getMetadataKeys(twice.heap, t, m).keys) :
                          getMetadataKeys(twice.heap, t, m).keys[j] = k}) <= 1
        /\ getMetadata(twice.heap, t, k, m).ret = v
\* Two defines of the held annotator's key reached one entity scope, the
\* later with the captured value: the scope lists the key once.
C13_Witness ==
  \E sc \in definedScopes :
    /\ held.live /\ held.metadataValue # Nil
    /\ definedScopes = {sc}
    /\ numDefines = 2
    /\ sc[2] = Nil
    /\ entityLog[sc[1].v] = <<[key |-> held.metadataKey, value |-> held.metadataValue]>>
    /\ getMetadataKeys(heap, sc[1], sc[2]).keys = <<held.metadataKey>>
    /\ getMetadata(heap, sc[1], held.metadataKey, sc[2]).ret = held.metadataValue

C15_HasIffGetDefined ==
  /\ \A t \in Targets, k \in Keys, m \in OptMembers :
        hasMetadata(heap, t, k, m).ret <=> getMetadata(heap, t, k, m).ret # Nil
  /\ CanDefine =>
      \A t \in Tables, k \in Keys, m \in OptMembers :
        \A h2 \in AfterDefine(heap, t, k, Nil, m) :
          /\ ~hasMetadata(h2, t, k, m).ret
          /\ getMetadata(h2, t, k, m).ret = Nil
\* One scope was last defined with the value undefined and reports no key;
\* another reports a key, and getMetadata returns its value.
C15_Witness ==
  \E t \in Tables, m \in OptMembers, u \in Tables, m2 \in OptMembers, k \in Keys :
    /\ <<t.v, m>> \in undefinedLast
    /\ StoreHas(heap[t.v].store, getKeyId(t, m))
    /\ \A k2 \in Keys : ~hasMetadata(heap, t, k2, m).ret /\ getMetadata(heap, t, k2, m).ret = Nil
    /\ hasMetadata(heap, u, k, m2).ret
    /\ getMetadata(heap, u, k, m2).ret \in Values \ {Nil}

====
